---- MODULE Spec2Model ----
(***************************************************************************)
(* Model of stats/matrix.rs: the correlation / covariance matrix, the      *)
(* descriptive statistics, the inverse correlation matrix and the          *)
(* anti-image matrices of the factor-analysis module.                      *)
(*                                                                         *)
(* f64 values are modelled as binary floating-point numbers <<m, e>>       *)
(* (value m * 2^e) with a mantissa of Precision bits, rounded to nearest,  *)
(* ties to even, after every operation, exactly as IEEE-754 does with 53   *)
(* bits.  The exponent is unbounded (no overflow to infinity, no gradual   *)
(* underflow).  <<0, 0>> is zero, <<0, 1>> NaN, <<0, 2>> / <<0, -2>> the   *)
(* infinities.  usize values are integers; a subtraction that goes below   *)
(* zero either panics (overflow checks on) or wraps modulo 2^64.           *)
(***************************************************************************)
EXTENDS Integers, Sequences, FiniteSets, TLC

\* ------------------------------------------------------------------ bounds
\* Bits of mantissa of the modelled floating-point format.
Precision == 4
\* Largest number of observations (rows) of a data matrix.
MaxRows == 3
\* Largest number of variables (columns) of a data matrix.
MaxCols == 2

\* --------------------------------------------------- floating-point format
Zero == <<0, 0>>
NaN == <<0, 1>>
PosInf == <<0, 2>>
NegInf == <<0, -2>>

IsNaN(x) == x = NaN
IsInf(x) == x = PosInf \/ x = NegInf
IsFinite(x) == x[1] # 0 \/ x[2] = 0

Abs(n) == IF n < 0 THEN -n ELSE n
Sgn(n) == IF n < 0 THEN -1 ELSE IF n > 0 THEN 1 ELSE 0
Min(a, b) == IF a <= b THEN a ELSE b

\* The sign of a float: -1, 0 or 1 (NaN has sign 0).
FSign(x) == IF x[1] # 0 THEN Sgn(x[1]) ELSE IF IsInf(x) THEN Sgn(x[2]) ELSE 0

RECURSIVE BitLen(_)
BitLen(n) == IF n = 0 THEN 0 ELSE 1 + BitLen(n \div 2)

\* sign * M * 2^E rounded to Precision bits, to nearest, ties to even.
Round(sign, M, E) ==
    IF M = 0 \/ sign = 0 THEN Zero
    ELSE LET L == BitLen(M) IN
         IF L <= Precision
         THEN <<sign * M * 2^(Precision - L), E - (Precision - L)>>
         ELSE LET k == L - Precision
                  q == M \div 2^k
                  r == M % 2^k
                  half == 2^(k - 1)
                  q1 == IF r > half \/ (r = half /\ q % 2 = 1) THEN q + 1 ELSE q
              IN IF q1 = 2^Precision
                 THEN <<sign * 2^(Precision - 1), E + k + 1>>
                 ELSE <<sign * q1, E + k>>

\* `n as f64` for an integer n.
FromInt(n) == Round(Sgn(n), Abs(n), 0)

\* The float nearest to num / den, for 0 < den <= num * 2.
FromRatio(num, den) ==
    LET Q == (num * 2^(Precision + 2)) \div den
        R == (num * 2^(Precision + 2)) % den
    IN Round(1, 2 * Q + (IF R = 0 THEN 0 ELSE 1), -(Precision + 3))

One == FromInt(1)

fneg(x) == IF IsNaN(x) THEN NaN ELSE <<-x[1], IF x[1] = 0 THEN -x[2] ELSE x[2]>>

fadd(a, b) ==
    IF IsNaN(a) \/ IsNaN(b) THEN NaN
    ELSE IF IsInf(a) THEN (IF IsInf(b) /\ a # b THEN NaN ELSE a)
    ELSE IF IsInf(b) THEN b
    ELSE IF a = Zero THEN b
    ELSE IF b = Zero THEN a
    ELSE LET e == Min(a[2], b[2])
         IN IF a[2] - e >= Precision + 2 THEN a
            ELSE IF b[2] - e >= Precision + 2 THEN b
            ELSE LET M == a[1] * 2^(a[2] - e) + b[1] * 2^(b[2] - e)
                 IN Round(Sgn(M), Abs(M), e)

fsub(a, b) == fadd(a, fneg(b))

fmul(a, b) ==
    IF IsNaN(a) \/ IsNaN(b) THEN NaN
    ELSE IF IsInf(a) \/ IsInf(b)
         THEN (IF a = Zero \/ b = Zero THEN NaN
               ELSE IF FSign(a) * FSign(b) > 0 THEN PosInf ELSE NegInf)
    ELSE Round(Sgn(a[1]) * Sgn(b[1]), Abs(a[1]) * Abs(b[1]), a[2] + b[2])

fdiv(a, b) ==
    IF IsNaN(a) \/ IsNaN(b) THEN NaN
    ELSE IF IsInf(a)
         THEN (IF IsInf(b) THEN NaN
               ELSE IF FSign(a) * (IF FSign(b) < 0 THEN -1 ELSE 1) > 0
                    THEN PosInf ELSE NegInf)
    ELSE IF IsInf(b) THEN Zero
    ELSE IF b = Zero
         THEN (IF a = Zero THEN NaN ELSE IF a[1] > 0 THEN PosInf ELSE NegInf)
    ELSE IF a = Zero THEN Zero
    ELSE LET N == Abs(a[1]) * 2^(Precision + 2)
             Q == N \div Abs(b[1])
             R == N % Abs(b[1])
         IN Round(Sgn(a[1]) * Sgn(b[1]),
                  2 * Q + (IF R = 0 THEN 0 ELSE 1),
                  a[2] - b[2] - (Precision + 3))

\* The integer square root of M, one bit at a time from `bit` down.
RECURSIVE ISqrt(_, _, _)
ISqrt(M, r, bit) ==
    IF bit = 0 THEN r
    ELSE IF (r + bit) * (r + bit) <= M
         THEN ISqrt(M, r + bit, bit \div 2)
         ELSE ISqrt(M, r, bit \div 2)

fsqrt(a) ==
    IF IsNaN(a) \/ a = NegInf THEN NaN
    ELSE IF a = PosInf \/ a = Zero THEN a
    ELSE IF a[1] < 0 THEN NaN
    ELSE LET s == IF (a[2] - (Precision + 2)) % 2 = 0
                  THEN Precision + 2 ELSE Precision + 3
             M == a[1] * 2^s
             r == ISqrt(M, 0, 2^(Precision + 2))
         IN Round(1, 2 * r + (IF r * r = M THEN 0 ELSE 1),
                  ((a[2] - s) \div 2) - 1)

\* a > b on f64: false when either is NaN.
fgt(a, b) ==
    IF IsNaN(a) \/ IsNaN(b) THEN FALSE
    ELSE IF a = b THEN FALSE
    ELSE IF IsInf(a) THEN a = PosInf
    ELSE IF IsInf(b) THEN b = NegInf
    ELSE IF FSign(a) # FSign(b) THEN FSign(a) > FSign(b)
    ELSE IF FSign(a) > 0
         THEN a[2] > b[2] \/ (a[2] = b[2] /\ a[1] > b[1])
         ELSE a[2] < b[2] \/ (a[2] = b[2] /\ a[1] > b[1])

\* f64::max and f64::min: the other operand when one is NaN.
fmax(a, b) == IF IsNaN(a) THEN b ELSE IF IsNaN(b) THEN a ELSE IF fgt(b, a) THEN b ELSE a
fmin(a, b) == IF IsNaN(a) THEN b ELSE IF IsNaN(b) THEN a ELSE IF fgt(a, b) THEN b ELSE a

\* ------------------------------------------------------------ the inputs
\* The observations the data matrices are built from (as f64 values).
Values == {FromInt(0), FromInt(1), FromInt(3), FromInt(7)}

\* DMatrix<f64>: nrows, ncols and the cells, cells[i][j] for row i, column j.
Matrix(n, c, cells) == [nrows |-> n, ncols |-> c, cells |-> cells]

DataMatrices ==
    UNION {{Matrix(n, c, cells) : cells \in [1..n -> [1..c -> Values]]}
           : n \in 0..MaxRows, c \in 0..MaxCols}

AllNames == <<"A", "B", "C", "D">>

\* What extract_data_matrix delivers: an error, or a complete rectangular
\* matrix with one unique variable name per column, in column order.
ExtractResults ==
    {[ok |-> FALSE, err |-> "No valid data"]}
    \cup {[ok |-> TRUE, data_matrix |-> D, var_names |-> SubSeq(AllNames, 1, D.ncols)]
          : D \in DataMatrices}

Ok(v) == [kind |-> "Ok", value |-> v]
Err(m) == [kind |-> "Err", msg |-> m]
\* The panic of an arithmetic overflow check (builds with overflow checks on).
Panic == [kind |-> "Panic", msg |-> "attempt to subtract with overflow"]

\* `(a - b) as f64` on usize in a build without overflow checks: the
\* difference wraps to 2^64 + (a - b), whose nearest float is 2^64.
USubAsF64(a, b) == IF a >= b THEN FromInt(a - b) ELSE Round(1, 1, 64)

\* ------------------------------------------------------- calculate_matrix
\* sum of column j over the rows 1..k, accumulated in row order.
RECURSIVE ColumnSum(_, _, _)
ColumnSum(D, j, k) ==
    IF k = 0 THEN Zero ELSE fadd(ColumnSum(D, j, k - 1), D.cells[k][j])

ColumnMeans(D) ==
    [j \in 1..D.ncols |-> fdiv(ColumnSum(D, j, D.nrows), FromInt(D.nrows))]

\* <<sum_xy, sum_x2, sum_y2>> of columns i and j over the rows 1..k.
RECURSIVE CorrelationSums(_, _, _, _, _)
CorrelationSums(D, means, i, j, k) ==
    IF k = 0 THEN <<Zero, Zero, Zero>>
    ELSE LET acc == CorrelationSums(D, means, i, j, k - 1)
             dx == fsub(D.cells[k][i], means[i])
             dy == fsub(D.cells[k][j], means[j])
         IN <<fadd(acc[1], fmul(dx, dy)),
              fadd(acc[2], fmul(dx, dx)),
              fadd(acc[3], fmul(dy, dy))>>

\* The cell divided by sum_x2 alone: the regression slope, not Pearson's r.
CorrelationCellBySlope(D, means, i, j) ==
    LET s == CorrelationSums(D, means, i, j, D.nrows)
    IN IF fgt(s[2], Zero) THEN fdiv(s[1], s[2])
       ELSE IF i = j THEN One ELSE Zero

CorrelationCell(D, means, i, j) ==
    LET s == CorrelationSums(D, means, i, j, D.nrows)
        denominator == fsqrt(fmul(s[2], s[3]))
    IN IF fgt(denominator, Zero) THEN fdiv(s[1], denominator)
       ELSE IF i = j THEN One ELSE Zero

RECURSIVE SumProduct(_, _, _, _, _)
SumProduct(D, means, i, j, k) ==
    IF k = 0 THEN Zero
    ELSE fadd(SumProduct(D, means, i, j, k - 1),
              fmul(fsub(D.cells[k][i], means[i]), fsub(D.cells[k][j], means[j])))

CovarianceCell(D, means, i, j) ==
    fdiv(SumProduct(D, means, i, j, D.nrows), USubAsF64(D.nrows, 1))

\* The guard with the bound off by one: a single row passes.
NotEnoughDataBelowOne(n_rows) == n_rows < 1

\* The guard of lines 25-27.
NotEnoughData(n_rows) == n_rows < 2

calculate_matrix(data_matrix, matrix_type) ==
    IF NotEnoughData(data_matrix.nrows)
    THEN Err("Not enough data to calculate matrix")
    ELSE LET n_cols == data_matrix.ncols
             means == ColumnMeans(data_matrix)
         IN Ok(Matrix(n_cols, n_cols,
                [i \in 1..n_cols |-> [j \in 1..n_cols |->
                    IF matrix_type = "correlation"
                    THEN CorrelationCell(data_matrix, means, i, j)
                    ELSE CovarianceCell(data_matrix, means, i, j)]]))

\* ---------------------------------------- calculate_descriptive_statistics
RECURSIVE SumSq(_, _, _)
SumSq(D, j, k) ==
    IF k = 0 THEN Zero
    ELSE fadd(SumSq(D, j, k - 1), fmul(D.cells[k][j], D.cells[k][j]))

\* The variance of line 108, in a build where n_rows - 1 does not panic.
DescriptiveVariance(D, j) ==
    LET sum == ColumnSum(D, j, D.nrows)
        sum_sq == SumSq(D, j, D.nrows)
    IN fdiv(fsub(sum_sq, fdiv(fmul(sum, sum), FromInt(D.nrows))),
            USubAsF64(D.nrows, 1))

\* The Vec<DescriptiveStatistic> is the field stats of the value returned.
calculate_descriptive_statistics(ex, overflow_checks) ==
    IF ~ex.ok THEN Err(ex.err)
    ELSE LET D == ex.data_matrix
         IN IF D.ncols > 0 /\ D.nrows < 1 /\ overflow_checks THEN Panic
            ELSE Ok([stats |->
                     [j \in 1..D.ncols |->
                        [variable |-> ex.var_names[j],
                         mean |-> fdiv(ColumnSum(D, j, D.nrows), FromInt(D.nrows)),
                         std_deviation |-> fsqrt(DescriptiveVariance(D, j)),
                         analysis_n |-> D.nrows]]])

\* ------------------------------------------- the name-keyed result maps
Range(names) == {names[i] : i \in 1..Len(names)}

\* The index whose insert is the one a HashMap keeps for key v: the last.
LastIndex(names, v) ==
    CHOOSE i \in 1..Len(names) :
        names[i] = v /\ \A k \in 1..Len(names) : names[k] = v => k <= i

\* The nested HashMap the double loop over 0..n_vars builds from cells[i][j].
NestedMap(names, cells) ==
    [v \in Range(names) |->
        [w \in Range(names) |-> cells[LastIndex(names, v)][LastIndex(names, w)]]]

\* ------------------------------------------------------------ significance
\* The literal 0.99999 as an f64.
ClampBound == FromRatio(99999, 100000)

\* The off-diagonal p-value of lines 159-175, kept as the values it is
\* computed from: r, the clamped r, (n - 3) as f64 under the square root of
\* the standard error, and the degrees of freedom (n - 2) as f64.
PValue(r, n) ==
    [kind |-> "fisher",
     r |-> r,
     r_clamped |-> fmin(fmax(r, fneg(ClampBound)), ClampBound),
     se_arg |-> USubAsF64(n, 3),
     df |-> USubAsF64(n, 2)]

\* The p-value of a diagonal pair: 0.0 without computation.
DiagonalPValue == [kind |-> "diagonal", value |-> Zero]

\* Whether the assembler's loops reach an off-diagonal p-value at all.
ComputesPValue(n_vars, significance) == significance /\ n_vars >= 2

\* The conversion with the variances in place of the standard deviations.
CovarianceToCorrelationNoSqrt(matrix, i, j) ==
    LET std_i == matrix.cells[i][i]
        std_j == matrix.cells[j][j]
    IN IF fgt(std_i, Zero) /\ fgt(std_j, Zero)
       THEN fdiv(matrix.cells[i][j], fmul(std_i, std_j))
       ELSE Zero

\* The value r the covariance assembler derives before the p-value.
CovarianceToCorrelation(matrix, i, j) ==
    LET std_i == fsqrt(matrix.cells[i][i])
        std_j == fsqrt(matrix.cells[j][j])
    IN IF fgt(std_i, Zero) /\ fgt(std_j, Zero)
       THEN fdiv(matrix.cells[i][j], fmul(std_i, std_j))
       ELSE Zero

\* sig_values: one inner map per variable, filled only when requested.
SigValues(names, significance, p_values) ==
    IF significance
    THEN NestedMap(names,
            [i \in 1..Len(names) |-> [j \in 1..Len(names) |->
                IF i = j THEN DiagonalPValue ELSE p_values[i][j]]])
    ELSE [v \in Range(names) |-> <<>>]

DimensionMismatch(matrix, n_vars) ==
    matrix.nrows # n_vars \/ matrix.ncols # n_vars

\* ------------------------------------------- calculate_correlation_matrix
calculate_correlation_matrix(ex, significance, overflow_checks) ==
    IF ~ex.ok THEN Err(ex.err)
    ELSE LET m == calculate_matrix(ex.data_matrix, "correlation")
             n_vars == Len(ex.var_names)
             n == ex.data_matrix.nrows
         IN IF m.kind = "Err" THEN m
            ELSE IF DimensionMismatch(m.value, n_vars)
                 THEN Err("Matrix dimensions don't match variable count")
            ELSE IF ComputesPValue(n_vars, significance) /\ n < 3 /\ overflow_checks
                 THEN Panic
            ELSE Ok([correlations |->
                        NestedMap(ex.var_names, m.value.cells),
                     sig_values |->
                        SigValues(ex.var_names, significance,
                            [i \in 1..n_vars |-> [j \in 1..n_vars |->
                                PValue(m.value.cells[i][j], n)]]),
                     variable_order |-> ex.var_names])

\* -------------------------------------------- calculate_covariance_matrix
calculate_covariance_matrix(ex, significance, overflow_checks) ==
    IF ~ex.ok THEN Err(ex.err)
    ELSE LET m == calculate_matrix(ex.data_matrix, "covariance")
             n_vars == Len(ex.var_names)
             n == ex.data_matrix.nrows
         IN IF m.kind = "Err" THEN m
            ELSE IF DimensionMismatch(m.value, n_vars)
                 THEN Err("Matrix dimensions don't match variable count")
            ELSE IF ComputesPValue(n_vars, significance) /\ n < 3 /\ overflow_checks
                 THEN Panic
            ELSE Ok([correlations |->
                        NestedMap(ex.var_names, m.value.cells),
                     sig_values |->
                        SigValues(ex.var_names, significance,
                            [i \in 1..n_vars |-> [j \in 1..n_vars |->
                                PValue(CovarianceToCorrelation(m.value, i, j), n)]]),
                     variable_order |-> ex.var_names])

\* ------------------------------------------------------------ try_inverse
\* nalgebra's try_inverse for the dimensions 0..3, which it inverts in closed
\* form: None exactly when the determinant it computes is zero.
Det2(a, b, c, d) == fsub(fmul(a, d), fmul(b, c))

try_inverse(M) ==
    LET m(i, j) == M.cells[i][j]
    IN IF M.nrows = 0 THEN [some |-> TRUE, inv |-> M]
       ELSE IF M.nrows = 1
       THEN IF m(1, 1) = Zero THEN [some |-> FALSE]
            ELSE [some |-> TRUE,
                  inv |-> Matrix(1, 1, <<<<fdiv(One, m(1, 1))>>>>)]
       ELSE IF M.nrows = 2
       THEN LET determinant == Det2(m(1, 1), m(2, 1), m(1, 2), m(2, 2))
            IN IF determinant = Zero THEN [some |-> FALSE]
               ELSE [some |-> TRUE,
                     inv |-> Matrix(2, 2,
                        <<<<fdiv(m(2, 2), determinant), fdiv(fneg(m(1, 2)), determinant)>>,
                          <<fdiv(fneg(m(2, 1)), determinant), fdiv(m(1, 1), determinant)>>>>)]
       ELSE LET minor_m12_m23 == Det2(m(2, 2), m(3, 2), m(2, 3), m(3, 3))
                minor_m11_m23 == Det2(m(2, 1), m(3, 1), m(2, 3), m(3, 3))
                minor_m11_m22 == Det2(m(2, 1), m(3, 1), m(2, 2), m(3, 2))
                determinant ==
                    fadd(fsub(fmul(m(1, 1), minor_m12_m23),
                              fmul(m(1, 2), minor_m11_m23)),
                         fmul(m(1, 3), minor_m11_m22))
            IN IF determinant = Zero THEN [some |-> FALSE]
               ELSE [some |-> TRUE,
                     inv |-> Matrix(3, 3,
                        <<<<fdiv(minor_m12_m23, determinant),
                            fdiv(Det2(m(1, 3), m(3, 3), m(1, 2), m(3, 2)), determinant),
                            fdiv(Det2(m(1, 2), m(2, 2), m(1, 3), m(2, 3)), determinant)>>,
                          <<fdiv(fneg(minor_m11_m23), determinant),
                            fdiv(Det2(m(1, 1), m(3, 1), m(1, 3), m(3, 3)), determinant),
                            fdiv(Det2(m(1, 3), m(2, 3), m(1, 1), m(2, 1)), determinant)>>,
                          <<fdiv(minor_m11_m22, determinant),
                            fdiv(Det2(m(1, 2), m(3, 2), m(1, 1), m(3, 1)), determinant),
                            fdiv(Det2(m(1, 1), m(2, 1), m(1, 2), m(2, 2)), determinant)>>>>)]

\* ----------------------------------- calculate_inverse_correlation_matrix
calculate_inverse_correlation_matrix(ex) ==
    IF ~ex.ok THEN Err(ex.err)
    ELSE LET corr_matrix == calculate_matrix(ex.data_matrix, "correlation")
         IN IF corr_matrix.kind = "Err" THEN corr_matrix
            ELSE LET inverse == try_inverse(corr_matrix.value)
                 IN IF ~inverse.some THEN Err("Could not invert correlation matrix")
                    ELSE Ok([inverse_correlations |->
                                NestedMap(ex.var_names, inverse.inv.cells),
                             variable_order |-> ex.var_names])

\* ------------------------------------------ calculate_anti_image_matrices
AntiImageCovariance(inverse, i, j) ==
    IF i = j THEN fdiv(One, inverse.cells[i][j])
    ELSE fdiv(fneg(inverse.cells[i][j]),
              fmul(inverse.cells[i][i], inverse.cells[j][j]))

AntiImageCorrelation(inverse, i, j) ==
    IF i = j THEN One
    ELSE fdiv(fneg(inverse.cells[i][j]),
              fsqrt(fmul(inverse.cells[i][i], inverse.cells[j][j])))

calculate_anti_image_matrices(ex) ==
    IF ~ex.ok THEN Err(ex.err)
    ELSE LET corr_matrix == calculate_matrix(ex.data_matrix, "correlation")
         IN IF corr_matrix.kind = "Err" THEN corr_matrix
            ELSE LET inverse == try_inverse(corr_matrix.value)
                 IN IF ~inverse.some THEN Err("Could not invert correlation matrix")
                    ELSE Ok([anti_image_covariance |->
                                NestedMap(ex.var_names,
                                    [i \in 1..Len(ex.var_names) |->
                                     [j \in 1..Len(ex.var_names) |->
                                        AntiImageCovariance(inverse.inv, i, j)]]),
                             anti_image_correlation |->
                                NestedMap(ex.var_names,
                                    [i \in 1..Len(ex.var_names) |->
                                     [j \in 1..Len(ex.var_names) |->
                                        AntiImageCorrelation(inverse.inv, i, j)]]),
                             variable_order |-> ex.var_names])

\* ------------------------------------------------------------- the state
VARIABLES
    extracted,          \* what extract_data_matrix returns for this request
    significance_lvl,   \* config.descriptives.significance_lvl, as the call read it
    pc,                 \* "idle" before the entry point is called, "done" after
    call,               \* the entry point called, with matrix_type where it has one
    underflow,          \* whether a usize subtraction went below zero in the call
    outcome             \* what the call returned, or the panic that ended it

vars == <<extracted, significance_lvl, pc, call, underflow, outcome>>

MatrixTypes == {"correlation", "covariance"}

Init ==
    /\ extracted \in ExtractResults
    /\ significance_lvl = FALSE
    /\ pc = "idle"
    /\ call = <<"none">>
    /\ underflow = FALSE
    /\ outcome = [kind |-> "None"]

\* Whether the statistics loop subtracts 1 from a row count of 0.
DescriptiveUnderflows(ex) ==
    ex.ok /\ ex.data_matrix.ncols > 0 /\ ex.data_matrix.nrows < 1

\* Whether the assembler subtracts 3 from a row count below 3.
AssemblerUnderflows(ex, significance) ==
    /\ ex.ok
    /\ ex.data_matrix.nrows >= 2
    /\ ComputesPValue(Len(ex.var_names), significance)
    /\ ex.data_matrix.nrows < 3

CalculateMatrix ==
    /\ pc = "idle"
    /\ extracted.ok
    /\ \E matrix_type \in MatrixTypes :
         /\ call' = <<"calculate_matrix", matrix_type>>
         /\ outcome' = calculate_matrix(extracted.data_matrix, matrix_type)
    /\ underflow' = FALSE
    /\ pc' = "done"
    /\ UNCHANGED <<extracted, significance_lvl>>

\* The builds the call may run in: with or without overflow checks, which
\* differ only when a subtraction goes below zero.
Builds(underflows) == IF underflows THEN BOOLEAN ELSE {FALSE}

CalculateDescriptiveStatistics ==
    /\ pc = "idle"
    /\ \E overflow_checks \in Builds(DescriptiveUnderflows(extracted)) :
         outcome' = calculate_descriptive_statistics(extracted, overflow_checks)
    /\ underflow' = DescriptiveUnderflows(extracted)
    /\ call' = <<"calculate_descriptive_statistics">>
    /\ pc' = "done"
    /\ UNCHANGED <<extracted, significance_lvl>>

CalculateCorrelationMatrix ==
    /\ pc = "idle"
    /\ \E significance \in BOOLEAN :
       \E overflow_checks \in Builds(AssemblerUnderflows(extracted, significance)) :
         /\ significance_lvl' = significance
         /\ outcome' = calculate_correlation_matrix(extracted, significance,
                                                    overflow_checks)
         /\ underflow' = AssemblerUnderflows(extracted, significance)
    /\ call' = <<"calculate_correlation_matrix">>
    /\ pc' = "done"
    /\ UNCHANGED extracted

CalculateCovarianceMatrix ==
    /\ pc = "idle"
    /\ \E significance \in BOOLEAN :
       \E overflow_checks \in Builds(AssemblerUnderflows(extracted, significance)) :
         /\ significance_lvl' = significance
         /\ outcome' = calculate_covariance_matrix(extracted, significance,
                                                   overflow_checks)
         /\ underflow' = AssemblerUnderflows(extracted, significance)
    /\ call' = <<"calculate_covariance_matrix">>
    /\ pc' = "done"
    /\ UNCHANGED extracted

CalculateInverseCorrelationMatrix ==
    /\ pc = "idle"
    /\ outcome' = calculate_inverse_correlation_matrix(extracted)
    /\ underflow' = FALSE
    /\ call' = <<"calculate_inverse_correlation_matrix">>
    /\ pc' = "done"
    /\ UNCHANGED <<extracted, significance_lvl>>

CalculateAntiImageMatrices ==
    /\ pc = "idle"
    /\ outcome' = calculate_anti_image_matrices(extracted)
    /\ underflow' = FALSE
    /\ call' = <<"calculate_anti_image_matrices">>
    /\ pc' = "done"
    /\ UNCHANGED <<extracted, significance_lvl>>

Next ==
    \/ CalculateMatrix
    \/ CalculateDescriptiveStatistics
    \/ CalculateCorrelationMatrix
    \/ CalculateCovarianceMatrix
    \/ CalculateInverseCorrelationMatrix
    \/ CalculateAntiImageMatrices

Spec == Init /\ [][Next]_vars

\* calculate_matrix alone, over every data matrix.
SpecMatrix == Init /\ [][CalculateMatrix]_vars

\* The two assemblers alone.
NextAssemblers == CalculateCorrelationMatrix \/ CalculateCovarianceMatrix
SpecAssemblers == Init /\ [][NextAssemblers]_vars

\* The two entry points that invert the correlation matrix.
NextInverse == CalculateInverseCorrelationMatrix \/ CalculateAntiImageMatrices
SpecInverse == Init /\ [][NextInverse]_vars
\* ------------------------------------------------- vocabulary of the claims
Done(name) == pc = "done" /\ call[1] = name

\* The entry points that call calculate_matrix after the extraction.
MatrixCallers ==
    {"calculate_correlation_matrix", "calculate_covariance_matrix",
     "calculate_inverse_correlation_matrix", "calculate_anti_image_matrices"}

InsufficientData == Err("Not enough data to calculate matrix")
SingularMatrix == Err("Could not invert correlation matrix")

\* The correlation matrix calculate_matrix has just returned.
ReturnedMatrix(matrix_type) ==
    /\ pc = "done"
    /\ call = <<"calculate_matrix", matrix_type>>
    /\ outcome.kind = "Ok"

\* Every value of column j of D is the same.
ConstantColumn(D, j) == \A k \in 1..D.nrows : D.cells[k][j] = D.cells[1][j]

\* The integer a data value stands for (the data values are integers).
IntVal(v) == IF v[2] >= 0 THEN v[1] * 2^v[2] ELSE v[1] \div 2^(-v[2])

\* Column j is a non-zero constant multiple of column i, which varies.
Collinear(D, i, j) ==
    /\ i # j
    /\ ~ConstantColumn(D, i)
    /\ \A k \in 1..D.nrows : (D.cells[k][i] = Zero) <=> (D.cells[k][j] = Zero)
    /\ \A k, l \in 1..D.nrows :
         IntVal(D.cells[k][i]) * IntVal(D.cells[l][j])
             = IntVal(D.cells[l][i]) * IntVal(D.cells[k][j])

\* -1 <= r <= 1.
InUnitRange(r) == ~IsNaN(r) /\ ~fgt(r, One) /\ ~fgt(fneg(One), r)

\* |a - b| <= 16 * 2^-Precision * |b|: a and b agree up to the rounding
\* errors of the operations that separate them.
WithinRounding(a, b) ==
    IF a = b THEN TRUE
    ELSE IF ~IsFinite(a) \/ ~IsFinite(b) \/ a = Zero \/ b = Zero THEN FALSE
    ELSE LET e == Min(a[2], b[2])
         IN IF a[2] - e > Precision + 2 \/ b[2] - e > Precision + 2 THEN FALSE
            ELSE LET Ma == a[1] * 2^(a[2] - e)
                     Mb == b[1] * 2^(b[2] - e)
                 IN Abs(Ma - Mb) * 2^(Precision - 4) <= Abs(Mb)

\* A map keyed by exactly the names, each inner map keyed by them too.
SquareMap(map, names) ==
    /\ DOMAIN map = Range(names)
    /\ \A v \in DOMAIN map : DOMAIN map[v] = Range(names)

\* ------------------------------------------------------------------ C1
\* C1: for every data matrix the extraction delivers and every
\* configuration, each of the five entry points that take the data ends by
\* returning a result or an error message: no call panics, and no unsigned
\* subtraction n-1, n-2, n-3 on the row count goes below zero.
C1_ReturnsResultOrError ==
    (pc = "done" /\ extracted.ok
        /\ call[1] \in MatrixCallers \cup {"calculate_descriptive_statistics"})
    => (outcome.kind \in {"Ok", "Err"} /\ ~underflow)

\* ------------------------------------------------------------------ C2
\* C2: with fewer than 2 rows, calculate_matrix and every entry point that
\* calls it return the insufficient-data error and nothing else, for both
\* matrix kinds and whatever the columns hold.
C2_InsufficientData ==
    (pc = "done" /\ extracted.ok /\ extracted.data_matrix.nrows < 2
        /\ call[1] \in MatrixCallers \cup {"calculate_matrix"})
    => outcome = InsufficientData

\* A one-row, two-column matrix refused by the anti-image entry point.
C2_Witness ==
    /\ Done("calculate_anti_image_matrices")
    /\ extracted.ok
    /\ extracted.data_matrix.nrows = 1
    /\ extracted.data_matrix.ncols = 2
    /\ outcome = InsufficientData

\* ------------------------------------------------------------------ C3
\* C3: in the correlation matrix of a data matrix with at least 2 rows, a
\* column i whose values are all equal has cell (i,i) = 1.0 and cells
\* (i,j) = (j,i) = 0.0 for every other column j; no cell is NaN.
C3_ZeroVarianceCells ==
    ReturnedMatrix("correlation") =>
        LET D == extracted.data_matrix
            R == outcome.value.cells
        IN /\ \A i, j \in 1..D.ncols : ~IsNaN(R[i][j])
           /\ \A i \in 1..D.ncols :
                ConstantColumn(D, i) =>
                    /\ R[i][i] = One
                    /\ \A j \in 1..D.ncols \ {i} : R[i][j] = Zero /\ R[j][i] = Zero

\* ------------------------------------------------------------------ C4
\* C4: the correlation matrix of a data matrix with at least 2 rows has
\* every diagonal cell exactly 1.0 and every off-diagonal cell in [-1, 1].
C4_DiagonalOneRangeUnit ==
    ReturnedMatrix("correlation") =>
        LET R == outcome.value.cells
        IN \A i, j \in 1..outcome.value.ncols :
             IF i = j THEN R[i][j] = One ELSE InUnitRange(R[i][j])

\* ------------------------------------------------------------------ C5
\* C5: when one column is a non-zero constant multiple of another (at least
\* 2 rows, non-zero variance), calculate_inverse_correlation_matrix and
\* calculate_anti_image_matrices return the singular-matrix error.
C5_CollinearIsSingular ==
    (pc = "done" /\ extracted.ok /\ extracted.data_matrix.nrows >= 2
        /\ call[1] \in {"calculate_inverse_correlation_matrix",
                        "calculate_anti_image_matrices"}
        /\ \E i, j \in 1..extracted.data_matrix.ncols :
              Collinear(extracted.data_matrix, i, j))
    => outcome = SingularMatrix

\* ------------------------------------------------------------------ C6
\* C6: in every successful result of the four matrix entry points every
\* variable-to-variable map is square over variable_order; the significance
\* map is shaped like the value map or absent, requested or not.
C6_SquareMaps ==
    (pc = "done" /\ outcome.kind = "Ok" /\ call[1] \in MatrixCallers) =>
        LET v == outcome.value
            names == v.variable_order
        IN IF call[1] \in {"calculate_correlation_matrix",
                           "calculate_covariance_matrix"}
           THEN /\ SquareMap(v.correlations, names)
                /\ (SquareMap(v.sig_values, names) \/ DOMAIN v.sig_values = {})
           ELSE IF call[1] = "calculate_inverse_correlation_matrix"
           THEN SquareMap(v.inverse_correlations, names)
           ELSE /\ SquareMap(v.anti_image_covariance, names)
                /\ SquareMap(v.anti_image_correlation, names)

\* ------------------------------------------------------------------ C7
\* C7: for a data matrix with at least 2 rows, the diagonal cell (j,j) of the
\* covariance matrix equals the sample variance calculate_descriptive_statistics
\* computes for column j with (sum_sq - sum^2/n)/(n-1).
C7_CovarianceDiagonalIsVariance ==
    ReturnedMatrix("covariance") =>
        \A j \in 1..outcome.value.ncols :
            outcome.value.cells[j][j] = DescriptiveVariance(extracted.data_matrix, j)

\* ------------------------------------------------------------------ C8
\* C8: for both matrix kinds the matrix calculate_matrix returns is
\* symmetric: cell (i,j) equals cell (j,i), each computed on its own.
C8_Symmetric ==
    (Done("calculate_matrix") /\ outcome.kind = "Ok") =>
        \A i, j \in 1..outcome.value.ncols :
            outcome.value.cells[i][j] = outcome.value.cells[j][i]

\* A correlation matrix of two varying columns with an off-diagonal cell
\* that is neither 0 nor 1: both cells were computed, from swapped columns.
C8_Witness ==
    /\ ReturnedMatrix("correlation")
    /\ outcome.value.ncols = 2
    /\ ~ConstantColumn(extracted.data_matrix, 1)
    /\ ~ConstantColumn(extracted.data_matrix, 2)
    /\ outcome.value.cells[1][2] \notin {Zero, One}
    /\ outcome.value.cells[2][1] = outcome.value.cells[1][2]

\* ------------------------------------------------------------------ C9
\* The off-diagonal r values behind the p-values the covariance assembler
\* has just returned, against the cells of the correlation matrix.
CovarianceAssembled ==
    /\ Done("calculate_covariance_matrix")
    /\ outcome.kind = "Ok"
    /\ significance_lvl

AssembledR(i, j) ==
    outcome.value.sig_values[extracted.var_names[i]][extracted.var_names[j]].r

DirectR(i, j) ==
    calculate_matrix(extracted.data_matrix, "correlation").value.cells[i][j]

C10_SampleSizeAboveThree ==
    (pc = "done" /\ extracted.ok
        /\ call[1] \in {"calculate_correlation_matrix", "calculate_covariance_matrix"}
        /\ outcome # InsufficientData
        /\ ComputesPValue(Len(extracted.var_names), significance_lvl))
    => extracted.data_matrix.nrows > 3
====
